---- MODULE Spec2Model ----
(***************************************************************************)
(* macluhan::tokio::Signals (src/src/linux/tokio.rs): an asynchronous      *)
(* signal source over a signalfd and an optional SIGINT eventfd.           *)
(*                                                                         *)
(* The model follows one process and one source through construction, the  *)
(* Era::Bc -> Era::Ad transition, the readiness loops of next() and        *)
(* next_with_sigint(), cancellation of a suspended next() future, and      *)
(* Drop.  The kernel (signal delivery, eventfd writes) and the Tokio       *)
(* reactor (readiness flags of the two AsyncFd registrations) are the      *)
(* environment.                                                            *)
(*                                                                         *)
(* heveanly::Fd is Copy (next() at line 115 copies s.sigfd out of a shared *)
(* borrow), so it has no Drop: dropping an AsyncFd<Fd> deregisters the     *)
(* descriptor from the reactor and closes nothing.                         *)
(***************************************************************************)
EXTENDS Integers, Sequences, FiniteSets, TLC

\* ------------------------------------------------------------------ bounds
MaxDeliver == 2      \* signals sent to the process
MaxOverride == 1     \* writes to the interrupt-override eventfd
MaxCalls == 2        \* next() calls that run to completion
MaxRegs == 2         \* registrations of one descriptor with the reactor
MaxFaults == 1       \* I/O failures injected by the environment
MaxSpurious == 1     \* false-positive readiness events of the reactor

\* --------------------------------------------------------------- constants
SIGINT == 2
RecordSize == 128    \* size_of::<libc::signalfd_siginfo>()
EAGAIN == "EAGAIN"

SigDomain == {2, 15, 17}
FD == {"sigfd", "efd"}
NewLists == {{15}, {2, 17}}
Kinds == {"new", "all", "deadly", "benign"}

VARIABLES
  rt,          \* a Tokio runtime has been started somewhere in the process
  inCtx,       \* the current thread is inside a runtime context
  panicked,    \* "none" | "ctor" | "noreactor"
  mask,        \* signals blocked in the process signal mask
  era,         \* "none" | "Bc" | "Ad" | "dropped"
  watched,     \* the signal set of the source
  hasInt,      \* sigint_efd >= 0
  builtAfterRt,\* history: rt at the time the source was constructed
  call,        \* "idle" | "wait": a next() future is in flight
  retried,     \* history: the call in flight has seen a would-block read
  closes,      \* [FD -> Nat] close() calls made on each descriptor
  reg,         \* [FD -> BOOLEAN] an AsyncFd registration exists
  regs,        \* history: [FD -> Nat] registrations performed
  ready,       \* [FD -> BOOLEAN] readiness flag of the registration
  pending,     \* signals pending on the signalfd (standard signals coalesce)
  ecount,      \* counter of the eventfd
  sent,        \* history: signals sent
  esent,       \* history: eventfd writes
  taken,       \* history: identities the kernel handed out in whole reads
  results,     \* history: results of the completed next() calls
  faults,      \* history: injected I/O failures
  spurious,    \* history: false-positive readiness events
  raceAt,      \* history: index of the call that completed in a two-way race
  cancelled,   \* history: a next() future of the source has been dropped
  edge,        \* [FD -> BOOLEAN] an epoll event waits for the reactor
  tick,        \* [FD -> Nat] tick of the readiness flag of the registration
  at,          \* the descriptor whose AsyncFdReadyGuard the call holds
  gtick,       \* the tick that guard was made at
  last         \* history: what the last step did

vars == <<rt, inCtx, panicked, mask, era, watched, hasInt, builtAfterRt, call,
          retried, closes, reg, regs, ready, pending, ecount, sent, esent,
          taken, results, faults, spurious, raceAt, cancelled,
          edge, tick, at, gtick, last>>

procVars == <<rt, inCtx, panicked, mask>>
srcVars == <<era, watched, hasInt, builtAfterRt>>
histVars == <<sent, esent, faults, spurious>>
winVars == <<edge, tick, at, gtick>>

\* ----------------------------------------------------------------- values
Ok(s) == [tag |-> "Ok", sig |-> s, err |-> ""]
Err(e) == [tag |-> "Err", sig |-> 0, err |-> e]
None == [tag |-> "None", sig |-> 0, err |-> ""]

ReadOk(len, signo) == [kind |-> "ok", len |-> len, signo |-> signo, errno |-> ""]
ReadErr(e) == [kind |-> "err", len |-> 0, signo |-> 0, errno |-> e]

Min(S) == CHOOSE x \in S : \A y \in S : x <= y

AllFalse == [f \in FD |-> FALSE]
Bump(f, d) == [f EXCEPT ![d] = @ + 1]


\* ------------------------------------------------- the signal-set presets
\* signals_new / signals_all / signals_deadly / signals_benign build the
\* sigset and hand it to from_sigset.
Preset(kind, sigs) ==
  CASE kind = "new" -> sigs
    [] kind = "all" -> SigDomain
    [] kind = "deadly" -> {2, 15}
    [] kind = "benign" -> {17}

\* The interrupt-override descriptor exists only for presets that include
\* the interrupt signal, and then optionally.
OverrideChoices(sigs) == IF SIGINT \in sigs THEN BOOLEAN ELSE {FALSE}

\* Destruction of the pre-registration handle (super::Signals) releases the
\* raw descriptors it owns.
SuperDropCloses(int) == IF int THEN {"sigfd", "efd"} ELSE {"sigfd"}

\* ------------------------------------------------------------ constructor
\* from_sigset without the try_current() check
from_sigset_unchecked(ctx) == FALSE

\* from_sigset: runtime::Handle::try_current().is_ok() looks at the context
\* of the calling thread.
from_sigset_panics(ctx) == ctx

\* from_sigset blocking the signals before the try_current() check
from_sigset_mask_early(m, sigs, panics) == m \cup sigs

\* from_sigset (lines 76-81): the panic of line 78 leaves before line 80,
\* where super::Signals::from_sigset blocks the signals of the set
from_sigset_mask(m, sigs, panics) == IF panics THEN m ELSE m \cup sigs

Alive == panicked = "none"

Construct(kind, sigs, int) ==
  /\ Alive /\ era = "none"
  /\ ~from_sigset_panics(inCtx)
  /\ era' = "Bc"
  /\ watched' = Preset(kind, sigs)
  /\ hasInt' = int
  /\ builtAfterRt' = rt
  /\ mask' = from_sigset_mask(mask, Preset(kind, sigs), FALSE)
  /\ last' = "construct"
  /\ UNCHANGED cancelled
  /\ UNCHANGED winVars
  /\ UNCHANGED <<rt, inCtx, panicked, call, retried, closes, reg, regs, ready,
                 pending, ecount, taken, results, raceAt>>
  /\ UNCHANGED histVars

ConstructPanic(kind, sigs) ==
  /\ Alive /\ era = "none"
  /\ from_sigset_panics(inCtx)
  /\ panicked' = "ctor"
  /\ mask' = from_sigset_mask(mask, Preset(kind, sigs), TRUE)
  /\ last' = "ctor_panic"
  /\ UNCHANGED cancelled
  /\ UNCHANGED winVars
  /\ UNCHANGED <<rt, inCtx, call, retried, closes, reg, regs, ready,
                 pending, ecount, taken, results, raceAt>>
  /\ UNCHANGED srcVars
  /\ UNCHANGED histVars

\* ---------------------------------------------------------------- runtime
StartRuntime ==
  /\ Alive /\ ~rt
  /\ rt' = TRUE
  /\ last' = "start_rt"
  /\ UNCHANGED cancelled
  /\ UNCHANGED winVars
  /\ UNCHANGED <<inCtx, panicked, mask, call, retried, closes, reg, regs,
                 ready, pending, ecount, taken, results, raceAt>>
  /\ UNCHANGED srcVars
  /\ UNCHANGED histVars

EnterCtx ==
  /\ Alive /\ rt /\ ~inCtx
  /\ inCtx' = TRUE
  /\ last' = "enter"
  /\ UNCHANGED cancelled
  /\ UNCHANGED winVars
  /\ UNCHANGED <<rt, panicked, mask, call, retried, closes, reg, regs, ready,
                 pending, ecount, taken, results, raceAt>>
  /\ UNCHANGED srcVars
  /\ UNCHANGED histVars

ExitCtx ==
  /\ Alive /\ inCtx /\ call = "idle"
  /\ inCtx' = FALSE
  /\ last' = "exit"
  /\ UNCHANGED cancelled
  /\ UNCHANGED winVars
  /\ UNCHANGED <<rt, panicked, mask, call, retried, closes, reg, regs, ready,
                 pending, ecount, taken, results, raceAt>>
  /\ UNCHANGED srcVars
  /\ UNCHANGED histVars

\* ----------------------------------------------------- kernel and reactor
Deliver(s) ==
  /\ Alive /\ era \in {"Bc", "Ad"}
  /\ s \in watched
  /\ sent < MaxDeliver
  /\ pending' = pending \cup {s}
  /\ sent' = sent + 1
  /\ last' = "deliver"
  /\ UNCHANGED cancelled
  /\ UNCHANGED winVars
  /\ UNCHANGED <<call, retried, closes, reg, regs, ready, ecount, taken,
                 results, raceAt, esent, faults, spurious>>
  /\ UNCHANGED procVars
  /\ UNCHANGED srcVars

Override ==
  /\ Alive /\ era \in {"Bc", "Ad"}
  /\ hasInt /\ closes["efd"] = 0
  /\ esent < MaxOverride
  /\ ecount' = ecount + 1
  /\ esent' = esent + 1
  /\ last' = "override"
  /\ UNCHANGED cancelled
  /\ UNCHANGED winVars
  /\ UNCHANGED <<call, retried, closes, reg, regs, ready, pending, taken,
                 results, raceAt, sent, faults, spurious>>
  /\ UNCHANGED procVars
  /\ UNCHANGED srcVars

HasData(d) == IF d = "sigfd" THEN pending # {} ELSE ecount > 0

Wake(d) ==
  /\ Alive /\ reg[d] /\ ~ready[d]
  /\ closes[d] = 0 /\ HasData(d)
  /\ ready' = [ready EXCEPT ![d] = TRUE]
  /\ last' = "wake"
  /\ UNCHANGED cancelled
  /\ UNCHANGED winVars
  /\ UNCHANGED <<call, retried, closes, reg, regs, pending, ecount, taken,
                 results, raceAt>>
  /\ UNCHANGED procVars
  /\ UNCHANGED srcVars
  /\ UNCHANGED histVars

SpuriousReady(d) ==
  /\ Alive /\ reg[d] /\ ~ready[d]
  /\ spurious < MaxSpurious
  /\ ready' = [ready EXCEPT ![d] = TRUE]
  /\ spurious' = spurious + 1
  /\ last' = "spurious"
  /\ UNCHANGED cancelled
  /\ UNCHANGED winVars
  /\ UNCHANGED <<call, retried, closes, reg, regs, pending, ecount, taken,
                 results, raceAt, sent, esent, faults>>
  /\ UNCHANGED procVars
  /\ UNCHANGED srcVars


\* ------------------------------------------------------- the kernel reads
\* read(2) on the signalfd with a buffer of one record: the lowest pending
\* signal is dequeued and returned whole.  A read of another length stands
\* for an ABI mismatch of the environment.
SigReads ==
  IF closes["sigfd"] > 0 THEN {ReadErr("EBADF")}
  ELSE (IF pending = {} THEN {ReadErr(EAGAIN)}
        ELSE {ReadOk(RecordSize, Min(pending))})
       \cup (IF faults < MaxFaults
             THEN {ReadErr("EIO")}
                  \cup (IF pending = {} THEN {}
                        ELSE {ReadOk(RecordSize \div 2, Min(pending))})
             ELSE {})

\* read(2) of 8 bytes on the eventfd: returns the counter and resets it.
EfdReads ==
  IF closes["efd"] > 0 THEN {ReadErr("EBADF")}
  ELSE (IF ecount = 0 THEN {ReadErr(EAGAIN)} ELSE {ReadOk(8, 0)})
       \cup (IF faults < MaxFaults THEN {ReadErr("EIO")} ELSE {})

IsFault(r) == r = ReadErr("EIO") \/ (r.kind = "ok" /\ r.len \notin {8, RecordSize})

\* ------------------------------------------------------ the decode steps
\* read_sigfd with the arms of `len == size_of_val(info)` swapped
read_sigfd_swapped(r) ==
  IF r.kind = "ok"
  THEN (IF r.len = RecordSize THEN Err("InvalidData") ELSE Ok(r.signo))
  ELSE IF r.errno = EAGAIN THEN None
  ELSE Err(r.errno)

\* read_sigfd without the Err(EAGAIN) arm
read_sigfd_eagain_err(r) ==
  IF r.kind = "ok"
  THEN (IF r.len = RecordSize THEN Ok(r.signo) ELSE Err("InvalidData"))
  ELSE Err(r.errno)

\* read_sigfd without the length check
read_sigfd_nolen(r) ==
  IF r.kind = "ok" THEN Ok(r.signo)
  ELSE IF r.errno = EAGAIN THEN None
  ELSE Err(r.errno)

\* read_sigfd (lines 12-27); None stands for `guard.clear_ready(); None`.
read_sigfd(r) ==
  IF r.kind = "ok"
  THEN (IF r.len = RecordSize THEN Ok(r.signo) ELSE Err("InvalidData"))
  ELSE IF r.errno = EAGAIN THEN None
  ELSE Err(r.errno)

\* the sigint_efd branch with every read error retried
read_sigint_retry(r) ==
  IF r.kind = "ok" THEN Ok(SIGINT) ELSE None

\* the sigint_efd branch of next_with_sigint (lines 43-53)
read_sigint(r) ==
  IF r.kind = "ok" THEN Ok(SIGINT)
  ELSE IF r.errno = EAGAIN THEN None
  ELSE Err(r.errno)

\* the era toggled at the end of every call
EraAfterNext_toggle(e, out) == IF e = "Bc" THEN "Ad" ELSE "Bc"

\* init_and_next with `next(&sigfd).await?`: an Err leaves before line 107
EraAfterNext_question(e, out) == IF e = "Bc" /\ out.tag = "Ok" THEN "Ad" ELSE e

\* self.era after a next() call has returned `out` (lines 107, 114-120):
\* init_and_next stores Era::Ad whatever the result, the other arms of
\* next() leave the era alone
EraAfterNext(e, out) == IF e = "Bc" THEN "Ad" ELSE e

\* descriptors closed by the assignment at line 107, which drops the
\* replaced Era::Bc(super::Signals)
TransitionCloses(e, int) == IF e = "Bc" THEN SuperDropCloses(int) ELSE {}

\* descriptors closed by Drop for Signals (lines 124-130)
drop_closes(e) == IF e = "Ad" THEN {"sigfd"} ELSE {}

Closed(cl, ds) == [d \in FD |-> IF d \in ds THEN cl[d] + 1 ELSE cl[d]]

\* next() dispatching to the single-source loop whatever sigint_efd is
Branches_sigfd_only == {"sigfd"}

\* the branches of the loop a next() call waits on (lines 32, 42-57)
Branches == IF hasInt THEN FD ELSE {"sigfd"}

InRace ==
  /\ hasInt
  /\ ready["sigfd"] /\ ready["efd"]
  /\ Cardinality(pending) = 1 /\ ecount = 1
  /\ closes["sigfd"] = 0 /\ closes["efd"] = 0

\* a next() call returns `out`: init_and_next stores Era::Ad first
Return(out, race) ==
  /\ results' = Append(results, out)
  /\ call' = "idle"
  /\ era' = EraAfterNext(era, out)
  /\ closes' = Closed(closes, TransitionCloses(era, hasInt))
  /\ raceAt' = IF raceAt = 0 /\ race THEN Len(results) + 1 ELSE raceAt
  /\ last' = "return"
  /\ UNCHANGED cancelled
  /\ UNCHANGED winVars
  /\ UNCHANGED <<watched, hasInt, builtAfterRt, retried, reg, regs>>

WouldBlock(d) ==
  /\ ready' = [ready EXCEPT ![d] = FALSE]
  /\ retried' = TRUE
  /\ last' = "wouldblock"
  /\ UNCHANGED cancelled
  /\ UNCHANGED winVars
  /\ UNCHANGED <<call, closes, reg, regs, results, raceAt>>
  /\ UNCHANGED srcVars

\* --------------------------------------------------------------- next()
\* Signals::next in Era::Ad (lines 116-119)
NextAd ==
  /\ Alive /\ era = "Ad" /\ call = "idle"
  /\ Len(results) < MaxCalls
  /\ call' = "wait"
  /\ retried' = FALSE
  /\ last' = "call"
  /\ UNCHANGED cancelled
  /\ UNCHANGED winVars
  /\ UNCHANGED <<closes, reg, regs, ready, pending, ecount, taken, results,
                 raceAt>>
  /\ UNCHANGED procVars
  /\ UNCHANGED srcVars
  /\ UNCHANGED histVars

\* AsyncFd::new taking the reactor lazily, whatever the context
AsyncFdNew_lazy(ctx) == FALSE

\* AsyncFd::new (lines 100, 104) takes the reactor of the current runtime
\* context and panics when the thread is in none
AsyncFdNewPanics(ctx) == ~ctx

\* Signals::next in Era::Bc: init_and_next registers the descriptors
\* (lines 100, 104) and enters the loop
NextBc ==
  /\ Alive /\ era = "Bc" /\ call = "idle" /\ ~AsyncFdNewPanics(inCtx)
  /\ Len(results) < MaxCalls
  /\ regs["sigfd"] < MaxRegs
  /\ reg' = [d \in FD |-> d \in Branches]
  /\ regs' = [d \in FD |-> IF d \in Branches THEN regs[d] + 1 ELSE regs[d]]
  /\ ready' = AllFalse
  /\ call' = "wait"
  /\ retried' = FALSE
  /\ last' = "call"
  /\ UNCHANGED cancelled
  /\ UNCHANGED winVars
  /\ UNCHANGED <<closes, pending, ecount, taken, results, raceAt>>
  /\ UNCHANGED procVars
  /\ UNCHANGED srcVars
  /\ UNCHANGED histVars

\* the sigfd registration of line 100 outliving the `?` of line 104
RegAfterFail_leak(d) == [f \in FD |-> f = "sigfd" /\ d = "efd"]

\* The `?` of line 100 or 104 drops the locals of init_and_next: the AsyncFd
\* of line 100, when the failure is at line 104, deregisters in its drop
RegAfterFail(d) == AllFalse

\* AsyncFd::new fails: `?` leaves init_and_next before line 107; a sigfd
\* registration made before the failure is dropped again
NextBcRegFail(d) ==
  /\ Alive /\ era = "Bc" /\ call = "idle" /\ ~AsyncFdNewPanics(inCtx)
  /\ Len(results) < MaxCalls
  /\ regs["sigfd"] < MaxRegs
  /\ faults < MaxFaults
  /\ d \in Branches
  /\ regs' = IF d = "efd" THEN Bump(regs, "sigfd") ELSE regs
  /\ reg' = RegAfterFail(d)
  /\ faults' = faults + 1
  /\ results' = Append(results, Err("EIO"))
  /\ retried' = FALSE
  /\ last' = "reg_fail"
  /\ UNCHANGED cancelled
  /\ UNCHANGED winVars
  /\ UNCHANGED <<call, closes, ready, pending, ecount, taken, raceAt,
                 sent, esent, spurious>>
  /\ UNCHANGED procVars
  /\ UNCHANGED srcVars

\* AsyncFd::new outside a runtime context panics
NextBcNoReactor ==
  /\ Alive /\ era = "Bc" /\ call = "idle" /\ AsyncFdNewPanics(inCtx)
  /\ Len(results) < MaxCalls
  /\ panicked' = "noreactor"
  /\ last' = "noreactor"
  /\ UNCHANGED cancelled
  /\ UNCHANGED winVars
  /\ UNCHANGED <<rt, inCtx, mask, call, retried, closes, reg, regs, ready,
                 pending, ecount, taken, results, raceAt>>
  /\ UNCHANGED srcVars
  /\ UNCHANGED histVars

\* one iteration of the loop on the signalfd branch (lines 32-35, 54-57)
PollSigfd ==
  /\ Alive /\ call = "wait" /\ ready["sigfd"]
  /\ \E r \in SigReads :
       /\ pending' = IF r.kind = "ok" THEN pending \ {r.signo} ELSE pending
       /\ taken' = IF r.kind = "ok" /\ r.len = RecordSize
                   THEN Append(taken, r.signo) ELSE taken
       /\ faults' = IF IsFault(r) THEN faults + 1 ELSE faults
       /\ IF read_sigfd(r) = None
          THEN WouldBlock("sigfd")
          ELSE Return(read_sigfd(r), InRace) /\ UNCHANGED ready
  /\ UNCHANGED <<ecount, sent, esent, spurious>>
  /\ UNCHANGED procVars

\* one iteration of the loop on the eventfd branch (lines 43-53)
PollSigint ==
  /\ Alive /\ call = "wait" /\ hasInt /\ ready["efd"]
  /\ \E r \in EfdReads :
       /\ ecount' = IF r.kind = "ok" THEN 0 ELSE ecount
       /\ taken' = IF r.kind = "ok" THEN Append(taken, SIGINT) ELSE taken
       /\ faults' = IF IsFault(r) THEN faults + 1 ELSE faults
       /\ IF read_sigint(r) = None
          THEN WouldBlock("efd")
          ELSE Return(read_sigint(r), InRace) /\ UNCHANGED ready
  /\ UNCHANGED <<pending, sent, esent, spurious>>
  /\ UNCHANGED procVars

\* readable().await? fails (lines 32, 44, 54)
WaitFail ==
  /\ Alive /\ call = "wait"
  /\ faults < MaxFaults
  /\ faults' = faults + 1
  /\ Return(Err("EIO"), FALSE)
  /\ UNCHANGED <<ready, pending, ecount, taken, sent, esent, spurious>>
  /\ UNCHANGED procVars

\* the next() future is dropped while suspended; in Era::Bc the AsyncFd
\* locals of init_and_next are dropped with it
Cancel ==
  /\ Alive /\ call = "wait"
  /\ call' = "idle"
  /\ reg' = IF era = "Bc" THEN AllFalse ELSE reg
  /\ ready' = IF era = "Bc" THEN AllFalse ELSE ready
  /\ last' = "cancel"
  /\ cancelled' = TRUE
  /\ UNCHANGED winVars
  /\ UNCHANGED <<retried, closes, regs, pending, ecount, taken, results,
                 raceAt>>
  /\ UNCHANGED procVars
  /\ UNCHANGED srcVars
  /\ UNCHANGED histVars

\* Drop for Signals (lines 124-130), then the drop of the era field
Drop ==
  /\ Alive /\ era \in {"Bc", "Ad"} /\ call = "idle"
  /\ closes' = Closed(Closed(closes, drop_closes(era)),
                      IF era = "Bc" THEN SuperDropCloses(hasInt) ELSE {})
  /\ reg' = AllFalse
  /\ ready' = AllFalse
  /\ era' = "dropped"
  /\ last' = "drop"
  /\ UNCHANGED cancelled
  /\ UNCHANGED winVars
  /\ UNCHANGED <<watched, hasInt, builtAfterRt, call, retried, regs, pending,
                 ecount, taken, results, raceAt>>
  /\ UNCHANGED procVars
  /\ UNCHANGED histVars

\* ---------------------------------------------------------- specification
Init ==
  /\ rt = FALSE /\ inCtx = FALSE /\ panicked = "none" /\ mask = {}
  /\ era = "none" /\ watched = {} /\ hasInt = FALSE /\ builtAfterRt = FALSE
  /\ call = "idle" /\ retried = FALSE
  /\ closes = [d \in FD |-> 0]
  /\ reg = AllFalse /\ regs = [d \in FD |-> 0] /\ ready = AllFalse
  /\ pending = {} /\ ecount = 0 /\ sent = 0 /\ esent = 0
  /\ taken = <<>> /\ results = <<>>
  /\ faults = 0 /\ spurious = 0 /\ raceAt = 0 /\ cancelled = FALSE
  /\ edge = AllFalse /\ tick = [d \in FD |-> 0] /\ at = "sigfd" /\ gtick = 0
  /\ last = "init"

ConstructAny ==
  \E kind \in Kinds : \E sigs \in NewLists :
    \E int \in OverrideChoices(Preset(kind, sigs)) : Construct(kind, sigs, int)

ConstructPanicAny ==
  \E kind \in Kinds : \E sigs \in NewLists : ConstructPanic(kind, sigs)

DeliverAny == \E s \in SigDomain : Deliver(s)
WakeAny == \E d \in FD : Wake(d)
SpuriousAny == \E d \in FD : SpuriousReady(d)
RegFailAny == \E d \in FD : NextBcRegFail(d)

Next ==
  \/ ConstructAny
  \/ ConstructPanicAny
  \/ StartRuntime
  \/ EnterCtx
  \/ ExitCtx
  \/ DeliverAny
  \/ Override
  \/ WakeAny
  \/ SpuriousAny
  \/ NextAd
  \/ NextBc
  \/ RegFailAny
  \/ NextBcNoReactor
  \/ PollSigfd
  \/ PollSigint
  \/ WaitFail
  \/ Cancel
  \/ Drop

Spec == Init /\ [][Next]_vars


\* ------------------------------------- the loop, one poll step at a time
\* The loop of next / next_with_sigint from the first call on, with the
\* three steps of one iteration apart: readable().await completes with a
\* guard, the guard's read, the guard's clear_ready.  The reactor is
\* edge-triggered: an arrival on a registered descriptor queues one event,
\* and the driver turns it into readiness with a new tick.

\* the state NextBc leaves, of a source made by all() before the runtime
WInit ==
  /\ rt = TRUE /\ inCtx = TRUE /\ panicked = "none" /\ mask = SigDomain
  /\ era = "Bc" /\ watched = SigDomain /\ hasInt \in BOOLEAN
  /\ builtAfterRt = FALSE
  /\ call = "wait" /\ retried = FALSE
  /\ closes = [d \in FD |-> 0]
  /\ reg = [d \in FD |-> d \in Branches]
  /\ regs = [d \in FD |-> IF d \in Branches THEN 1 ELSE 0]
  /\ ready = AllFalse
  /\ pending = {} /\ ecount = 0 /\ sent = 0 /\ esent = 0
  /\ taken = <<>> /\ results = <<>>
  /\ faults = 0 /\ spurious = 0 /\ raceAt = 0 /\ cancelled = FALSE
  /\ edge = AllFalse /\ tick = [d \in FD |-> 0] /\ at = "sigfd" /\ gtick = 0
  /\ last = "call"

\* a signal is sent: a standard signal already pending is not queued again
\* and wakes nobody
WDeliver(s) ==
  /\ era \in {"Bc", "Ad"}
  /\ s \in watched
  /\ sent < MaxDeliver
  /\ pending' = pending \cup {s}
  /\ sent' = sent + 1
  /\ edge' = IF s \notin pending /\ reg["sigfd"] /\ closes["sigfd"] = 0
             THEN [edge EXCEPT !["sigfd"] = TRUE] ELSE edge
  /\ last' = "deliver"
  /\ UNCHANGED <<call, retried, closes, reg, regs, ready, ecount, taken,
                 results, raceAt, esent, faults, spurious, cancelled,
                 tick, at, gtick>>
  /\ UNCHANGED procVars
  /\ UNCHANGED srcVars

\* the eventfd is written
WOverride ==
  /\ era \in {"Bc", "Ad"}
  /\ hasInt /\ closes["efd"] = 0
  /\ esent < MaxOverride
  /\ ecount' = ecount + 1
  /\ esent' = esent + 1
  /\ edge' = IF reg["efd"] THEN [edge EXCEPT !["efd"] = TRUE] ELSE edge
  /\ last' = "override"
  /\ UNCHANGED <<call, retried, closes, reg, regs, ready, pending, taken,
                 results, raceAt, sent, faults, spurious, cancelled,
                 tick, at, gtick>>
  /\ UNCHANGED procVars
  /\ UNCHANGED srcVars

\* the driver takes the event of d from epoll_wait, which reports it if d
\* is still readable, and sets the readiness flag under a new tick
WReactor(d) ==
  /\ edge[d] /\ reg[d]
  /\ edge' = [edge EXCEPT ![d] = FALSE]
  /\ ready' = IF HasData(d) THEN [ready EXCEPT ![d] = TRUE] ELSE ready
  /\ tick' = IF HasData(d) THEN Bump(tick, d) ELSE tick
  /\ last' = "wake"
  /\ UNCHANGED <<call, retried, closes, reg, regs, pending, ecount, taken,
                 results, raceAt, cancelled, at, gtick>>
  /\ UNCHANGED procVars
  /\ UNCHANGED srcVars
  /\ UNCHANGED histVars

\* a false-positive readiness event
WSpurious(d) ==
  /\ reg[d] /\ ~ready[d]
  /\ spurious < MaxSpurious
  /\ ready' = [ready EXCEPT ![d] = TRUE]
  /\ tick' = Bump(tick, d)
  /\ spurious' = spurious + 1
  /\ last' = "spurious"
  /\ UNCHANGED <<call, retried, closes, reg, regs, pending, ecount, taken,
                 results, raceAt, sent, esent, faults, cancelled,
                 edge, at, gtick>>
  /\ UNCHANGED procVars
  /\ UNCHANGED srcVars

\* readable().await completes on a branch whose readiness flag is set
\* (lines 32, 44, 54): the guard remembers the tick
WReadable(d) ==
  /\ call = "wait" /\ d \in Branches /\ ready[d]
  /\ call' = "guard"
  /\ at' = d
  /\ gtick' = tick[d]
  /\ last' = "readable"
  /\ UNCHANGED <<retried, closes, reg, regs, ready, pending, ecount, taken,
                 results, raceAt, cancelled, edge, tick>>
  /\ UNCHANGED procVars
  /\ UNCHANGED srcVars
  /\ UNCHANGED histVars

\* the loop clearing readiness whatever the read returned
ClearsAfter_always(out) == TRUE

\* `Err(EAGAIN) => guard.clear_ready()` (lines 21-24, 47-50): the only arm
\* of the match on the read that clears readiness
ClearsAfter(out) == out = None

\* AsyncFdReadyGuard::clear_ready (lines 22, 48) clears the flag only if
\* no event has set it again since the guard was made
ClearReady(rdy, t, g) == IF t = g THEN FALSE ELSE rdy

\* the outcome of the guard's read: None leaves the call at clear_ready
WAfterRead(out) ==
  IF out = None
  THEN /\ call' = "clear"
       /\ retried' = TRUE
       /\ last' = "eagain"
       /\ UNCHANGED <<closes, reg, regs, ready, results, raceAt, cancelled>>
       /\ UNCHANGED srcVars
       /\ UNCHANGED winVars
  ELSE /\ Return(out, InRace)
       /\ ready' = IF ClearsAfter(out)
                   THEN [ready EXCEPT ![at] = ClearReady(ready[at], tick[at], gtick)]
                   ELSE ready

\* the guard's read on the signalfd (lines 16-26)
WReadSigfd ==
  /\ call = "guard" /\ at = "sigfd"
  /\ \E r \in SigReads :
       /\ pending' = IF r.kind = "ok" THEN pending \ {r.signo} ELSE pending
       /\ taken' = IF r.kind = "ok" /\ r.len = RecordSize
                   THEN Append(taken, r.signo) ELSE taken
       /\ faults' = IF IsFault(r) THEN faults + 1 ELSE faults
       /\ WAfterRead(read_sigfd(r))
  /\ UNCHANGED <<ecount, sent, esent, spurious>>
  /\ UNCHANGED procVars

\* the guard's read on the eventfd (lines 45-52)
WReadSigint ==
  /\ call = "guard" /\ at = "efd"
  /\ \E r \in EfdReads :
       /\ ecount' = IF r.kind = "ok" THEN 0 ELSE ecount
       /\ taken' = IF r.kind = "ok" THEN Append(taken, SIGINT) ELSE taken
       /\ faults' = IF IsFault(r) THEN faults + 1 ELSE faults
       /\ WAfterRead(read_sigint(r))
  /\ UNCHANGED <<pending, sent, esent, spurious>>
  /\ UNCHANGED procVars

\* guard.clear_ready() after the would-block read, then the loop waits again
WClear ==
  /\ call = "clear"
  /\ ready' = [ready EXCEPT ![at] = ClearReady(ready[at], tick[at], gtick)]
  /\ call' = "wait"
  /\ last' = "wouldblock"
  /\ UNCHANGED <<retried, closes, reg, regs, pending, ecount, taken,
                 results, raceAt, cancelled>>
  /\ UNCHANGED procVars
  /\ UNCHANGED srcVars
  /\ UNCHANGED histVars
  /\ UNCHANGED winVars

WDeliverAny == \E s \in SigDomain : WDeliver(s)
WReactorAny == \E d \in FD : WReactor(d)
WSpuriousAny == \E d \in FD : WSpurious(d)
WReadableAny == \E d \in FD : WReadable(d)

WNext ==
  \/ WDeliverAny
  \/ WOverride
  \/ WReactorAny
  \/ WSpuriousAny
  \/ WReadableAny
  \/ WReadSigfd
  \/ WReadSigint
  \/ WClear
  \/ NextAd

\* The driver runs, and a task that can make a step is polled.
WindowSpec ==
  /\ WInit /\ [][WNext]_vars
  /\ WF_vars(WReactorAny) /\ WF_vars(WReadableAny)
  /\ WF_vars(WReadSigfd) /\ WF_vars(WReadSigint) /\ WF_vars(WClear)

\* ------------------------------------------------------------ properties
IsOk(r) == r.tag = "Ok"
OkResults == SelectSeq(results, IsOk)
OkSigs == [i \in 1..Len(OkResults) |-> OkResults[i].sig]

C2_NoLossUnderWouldBlock ==
  [][/\ last' = "wouldblock" =>
          /\ call' = "wait"
          /\ results' = results
          /\ pending' = pending /\ ecount' = ecount /\ taken' = taken
          /\ \E d \in FD : ready[d] /\ ~ready'[d]
     /\ \A i \in 1..Len(results') : results'[i] # Err(EAGAIN)]_vars

C2_Witness ==
  /\ retried /\ last = "return"
  /\ results[Len(results)] = Ok(15)

\* C3: race fairness.  When a call completes with both descriptors ready and
\* one event pending on each, and nothing else is sent and no I/O failure is
\* injected, that call and the next completed call return both events.
C3_RaceFairness ==
  (/\ raceAt # 0 /\ Len(results) > raceAt
   /\ sent = 1 /\ esent = 1 /\ faults = 0)
  => /\ IsOk(results[raceAt]) /\ IsOk(results[raceAt + 1])
     /\ Len(taken) = 2

\* C4: lifecycle irreversibility.  No step takes a source in Era::Ad
\* anywhere but to Era::Ad or to its drop.
C4_Irreversible == [][era = "Ad" => era' \in {"Ad", "dropped"}]_vars

C4_Witness ==
  /\ era = "Ad" /\ Len(results) = 2
  /\ ~IsOk(results[2])

\* C5 as stated: the descriptors are registered with the reactor exactly
\* once in the life of a source, and once a next() call has ended (returned,
\* failed or been cancelled) the source is Active.
C5_RegisteredOnce ==
  /\ \A d \in FD : regs[d] <= 1
  /\ (last \in {"cancel", "reg_fail", "return"} => era # "Bc")

\* C5 as amended: the source becomes Active at the end of the first next()
\* call that gets past registration and runs to a result, Ok or Err, and at
\* no other step; a call that is cancelled while suspended or that fails to
\* register leaves the source in PreInit with nothing registered, so the
\* call after it registers again; an Active source never registers again.
C5_TransitionAtFirstResult ==
  [][/\ (era = "Bc" /\ era' = "Ad") => last' = "return"
     /\ last' = "return" => era' = "Ad"
     /\ (era = "Bc" /\ last' \in {"cancel", "reg_fail"}) =>
          (era' = "Bc" /\ reg' = AllFalse)
     /\ era = "Ad" => regs' = regs]_vars

C5_Witness ==
  /\ era = "Ad" /\ regs["sigfd"] = 2
  /\ Len(results) = 1

\* C6: descriptor close safety.  Each descriptor is closed at most once, and
\* only when the source has been dropped.
C6_CloseSafety ==
  \A d \in FD : closes[d] <= 1 /\ (closes[d] > 0 => era = "dropped")

\* C7: teardown completeness.  After the drop of a source every descriptor
\* it owned has been closed exactly once.
C7_TeardownComplete ==
  era = "dropped" => \A d \in Branches : closes[d] = 1

\* C8: signal blocking precedes concurrency.  No source exists that was
\* constructed after a runtime had been started in the process.
C8_BlockedBeforeRuntime == era # "none" => ~builtAfterRt

\* C9: misuse fails fast.  A constructor called inside a runtime context
\* panics and yields no source; the panic is raised by nothing else.
C9_MisuseFailsFast ==
  [][/\ (era = "none" /\ era' # "none") => ~inCtx
     /\ (inCtx /\ last' \in {"construct", "ctor_panic"}) =>
          (panicked' = "ctor" /\ era' = "none")
     /\ panicked' = "ctor" =>
          (inCtx /\ era = "none" /\ last' = "ctor_panic")]_vars

C9_Witness == panicked = "ctor" /\ era = "none" /\ inCtx

\* C10: malformed record.  A read on the signalfd that takes a record but
\* returns another byte count ends the call with InvalidData: no panic, no
\* identity, no retry.
C10_MalformedRecord ==
  [][(pending' # pending /\ pending' \subseteq pending /\ taken' = taken) =>
       /\ call' = "idle"
       /\ results' = Append(results, Err("InvalidData"))
       /\ panicked' = "none"]_vars

C10_Witness ==
  /\ last = "return"
  /\ results[Len(results)] = Err("InvalidData")

\* C11: cancellation safety.  Dropping a suspended next() future consumes no
\* pending signal or override event and returns nothing, in either era; and
\* a call made after a cancellation that runs to its end without an injected
\* I/O failure returns an event.
C11_CancellationSafety ==
  [][/\ last' = "cancel" =>
          /\ pending' = pending /\ ecount' = ecount /\ taken' = taken
          /\ results' = results /\ era' = era /\ call' = "idle"
     /\ (cancelled /\ last' = "return" /\ faults' = 0) =>
          IsOk(results'[Len(results')])]_vars

\* C12: hard errors surface without retry.  A step in which a read fails
\* with another error than would-block, a readiness wait fails or a
\* registration fails ends the call at once with that error as its result,
\* and consumes no event.
HardError(r) == r.tag = "Err" /\ r.err \in {"EIO", "EBADF"}

C12_HardErrorsSurface ==
  [][(\/ (faults' # faults /\ taken' = taken /\ pending' = pending)
      \/ (call = "wait" /\ last' = "return"
            /\ pending' = pending /\ ecount' = ecount)) =>
       /\ call' = "idle"
       /\ Len(results') = Len(results) + 1
       /\ HardError(results'[Len(results')])
       /\ SubSeq(results', 1, Len(results)) = results
       /\ ecount' = ecount]_vars

C12_Witness ==
  /\ last = "return" /\ faults = 1
  /\ results[Len(results)] = Err("EIO")
  /\ hasInt /\ ready["efd"] /\ ecount = 1

\* C13: override delivery.  When the override channel has been signalled
\* once, no signal has been sent and no I/O failure is injected, the calls
\* completed so far are exactly one, which returned the interrupt identity
\* without a read of the signalfd; no other call has returned anything (a
\* following call stays suspended).
C13_OverrideDelivery ==
  (esent = 1 /\ sent = 0 /\ faults = 0 /\ Len(results) >= 1) =>
    /\ results = <<Ok(SIGINT)>>
    /\ taken = <<SIGINT>>
    /\ ecount = 0 /\ pending = {}

\* The reactor delivers readiness events and the executor polls a woken
\* task: weak fairness of the reactor step and of the two loop branches.
\* Cancellation and the environment's failures are not fair.
FairSpec ==
  Spec /\ WF_vars(WakeAny) /\ WF_vars(PollSigfd) /\ WF_vars(PollSigint)

\* C14: response.  A call in flight with an event pending on one of its
\* descriptors eventually leaves the wait (it returns, or is cancelled),
\* provided no earlier call of the source ended in an error; a call returns
\* only a decoded identity of the source or an error; and a step that
\* returns has either consumed an event or ends in an error, so a call with
\* nothing pending and no hard error stays suspended.
NoErrSoFar == \A i \in 1..Len(results) : IsOk(results[i])

C14_Response ==
  /\ [](\A i \in 1..Len(results) :
          \/ results[i].tag = "Err"
          \/ /\ results[i].tag = "Ok"
             /\ results[i].sig \in
                  watched \cup (IF hasInt THEN {SIGINT} ELSE {}))
  /\ [][(call = "wait" /\ last' = "return") =>
          \/ ~IsOk(results'[Len(results')])
          \/ pending' # pending \/ ecount' # ecount]_vars
  /\ ((Alive /\ call = "wait" /\ NoErrSoFar
         /\ (pending # {} \/ (hasInt /\ ecount > 0)))
        ~> (call = "idle"))

C14_Witness ==
  /\ last = "return" /\ era = "Ad" /\ regs["sigfd"] = 1
  /\ results = <<Ok(15)>> /\ ~retried

\* C15: live registration requires an execution context.  A source is
\* Active, or holds or has made a registration with the reactor, only in a
\* process in which a runtime has been started.
C15_ActiveNeedsRuntime ==
  (era = "Ad" \/ \E d \in FD : reg[d] \/ regs[d] > 0) => rt

C15_Witness == era = "Ad" /\ reg["sigfd"] /\ rt /\ ~builtAfterRt

\* C16: one event per call.  The step of a call that consumes an event ends
\* the call, and consumes from one descriptor only; when it services one
\* side of a race, the event of the other side is still pending on a
\* descriptor that is still open, for the following call to read.
C16_OneEventPerCall ==
  [][(/\ call = "wait" /\ last' \in {"return", "wouldblock"}
      /\ (pending' # pending \/ ecount' # ecount)) =>
       /\ call' = "idle"
       /\ ~(pending' # pending /\ ecount' # ecount)
       /\ Len(taken') <= Len(taken) + 1
       /\ InRace =>
            /\ (pending' # {} \/ ecount' > 0)
            /\ \A d \in FD : HasData(d)' => closes'[d] = 0]_vars

\* C18: registration failure leaves PreInit with nothing registered.  A
\* first call in which AsyncFd::new fails, on either descriptor, returns
\* that error, leaves the source in Era::Bc with both descriptors open and
\* holds no registration; and while no call is in flight the descriptors of
\* the source are registered exactly when it is in Era::Ad.
C18_RegFailLeavesPreInit ==
  /\ [][last' = "reg_fail" =>
          /\ era = "Bc" /\ era' = "Bc"
          /\ call' = "idle"
          /\ Len(results') = Len(results) + 1
          /\ results'[Len(results')].tag = "Err"
          /\ closes' = closes /\ closes' = [d \in FD |-> 0]
          /\ reg' = AllFalse]_vars
  /\ []((call = "idle" /\ era \in {"Bc", "Ad"}) =>
          \A d \in FD : reg[d] <=> (era = "Ad" /\ d \in Branches))

C18_Witness ==
  /\ last = "reg_fail" /\ era = "Bc" /\ hasInt
  /\ regs["sigfd"] = 1 /\ regs["efd"] = 0
  /\ results = <<Err("EIO")>>

\* C19: the misuse check precedes every side effect of construction.  The
\* step in which a constructor panics leaves the process signal mask as it
\* was and creates nothing: no source, no descriptor, no registration.
C19_CheckBeforeEffects ==
  [][last' = "ctor_panic" =>
       /\ inCtx
       /\ mask' = mask
       /\ era' = "none" /\ watched' = watched /\ hasInt' = hasInt
       /\ closes' = closes /\ reg' = reg /\ regs' = regs
       /\ pending' = pending /\ ecount' = ecount]_vars

C19_Witness ==
  /\ last = "ctor_panic" /\ panicked = "ctor" /\ rt
  /\ mask = {} /\ era = "none" /\ regs = [d \in FD |-> 0]

\* C17: no lost wakeup.  The readiness flag of a descriptor is cleared only
\* by the clear_ready that follows a would-block read on it, in a step that
\* consumes nothing and returns nothing; a registered open descriptor with
\* an event on it always has its readiness set or an event queued for the
\* driver; a signal that arrives between the would-block read and
\* clear_ready ends the call, and the call that had to retry returns the
\* pending signal when its read does not fail.
C17_NoLostWakeup ==
  /\ [][\A d \in FD : (ready[d] /\ ~ready'[d]) =>
          /\ call = "clear" /\ at = d /\ call' = "wait"
          /\ ~HasData(d) \/ edge[d]
          /\ pending' = pending /\ ecount' = ecount
          /\ results' = results /\ taken' = taken]_vars
  /\ [](\A d \in FD : (reg[d] /\ closes[d] = 0 /\ HasData(d)) =>
          (ready[d] \/ edge[d]))
  /\ [][(/\ call = "guard" /\ at = "sigfd" /\ retried /\ last' = "return"
         /\ closes["sigfd"] = 0 /\ faults' = faults) =>
          /\ pending # {}
          /\ results'[Len(results')] = Ok(Min(pending))
          /\ pending' = pending \ {Min(pending)}]_vars
  /\ \A d \in FD : (call = "clear" /\ at = d /\ HasData(d)) ~> (call = "idle")

C17_Witness ==
  /\ last = "wouldblock" /\ call = "wait" /\ at = "sigfd" /\ retried
  /\ pending = {15} /\ ready["sigfd"] /\ tick["sigfd"] = gtick + 1

====
